---- MODULE Spec2Model ----
(***************************************************************************)
(* IDF 3.0 decoder / encoder (src/src/idf30.rs).                           *)
(*                                                                         *)
(* Text is a sequence of lines, a line and every string value a sequence   *)
(* of one-character strings.  Idf30::parse is the chain                    *)
(*   PestParse ; ParseHeader ; ParseSection* ; ParseFinish                 *)
(* and Idf30::to_string the action ToString.  Reparse feeds the encoder's  *)
(* output back to the decoder (examples/round_trip.rs).                    *)
(*                                                                         *)
(* The grammar file idf30.pest is not part of the sources at hand.  The    *)
(* shape of the parse tree (section -> section_header, record*,            *)
(* section_name; EOI last) is the one the decoder's traversal relies on;   *)
(* the token grammar follows spec.md section 4.1.                          *)
(***************************************************************************)
EXTENDS Integers, Sequences, FiniteSets

VARIABLES
    file,                   \* the text handed to Idf30::parse: a sequence of lines
    idf30,                  \* Pairs<Rule> delivered by Idf30Parser::parse
    pos,                    \* index of the next pair idf30.next() yields
    pc,                     \* "start","header","sections","parsed","encoded","failed"
    pass,                   \* 1: decoding the input; 2: decoding the encoder's output
    header,                 \* Header built by parse_header
    placement,              \* Vec<ComponentPlacement>
    other_sections,         \* Vec<IdfSection>
    components_definitions, \* Vec<ComponentDefinition>
    result,                 \* Ok or the Error of the decode call
    text,                   \* the String built by to_string: a sequence of lines
    first                   \* the outcome of pass 1, kept for comparison in pass 2

vars == <<file, idf30, pos, pc, pass, header, placement, other_sections,
          components_definitions, result, text, first>>

-----------------------------------------------------------------------------
(* Bounds of the model *)

MaxSections == 2    \* sections after the header in a multi-section document
MaxRecords == 3     \* record lines in one section body
FracDigits == 5     \* decimal digits kept of a float value

-----------------------------------------------------------------------------
(* Characters and strings *)

DigitChars == <<"0", "1", "2", "3", "4", "5", "6", "7", "8", "9">>

IsDigit(c) == \E i \in 1..10 : DigitChars[i] = c

DigitVal(c) == (CHOOSE i \in 1..10 : DigitChars[i] = c) - 1

AllDigits(s) == \A i \in 1..Len(s) : IsDigit(s[i])

RECURSIVE Cat(_)
Cat(ss) == IF ss = <<>> THEN <<>> ELSE Head(ss) \o Cat(Tail(ss))

\* the values joined by one space each, as "{} {} {}" formats them
RECURSIVE Join(_)
Join(ss) ==
    IF ss = <<>> THEN <<>>
    ELSE IF Len(ss) = 1 THEN ss[1]
    ELSE ss[1] \o <<" ">> \o Join(Tail(ss))

StartsWith(s, p) == Len(s) >= Len(p) /\ SubSeq(s, 1, Len(p)) = p

RECURSIVE Pow10(_)
Pow10(n) == IF n = 0 THEN 1 ELSE 10 * Pow10(n - 1)

RECURSIVE NatOf(_)
NatOf(d) == IF d = <<>> THEN 0 ELSE NatOf(SubSeq(d, 1, Len(d) - 1)) * 10 + DigitVal(d[Len(d)])

RECURSIVE NatStr(_)
NatStr(n) == IF n < 10 THEN <<DigitChars[n + 1]>> ELSE NatStr(n \div 10) \o <<DigitChars[(n % 10) + 1]>>

\* n in exactly w digits, zero padded
RECURSIVE PadStr(_, _)
PadStr(n, w) == IF w = 0 THEN <<>> ELSE PadStr(n \div 10, w - 1) \o <<DigitChars[(n % 10) + 1]>>

RECURSIVE StripZeros(_)
StripZeros(d) == IF Len(d) > 1 /\ d[1] = "0" THEN StripZeros(Tail(d)) ELSE d

RECURSIVE LexLeq(_, _)
LexLeq(a, b) ==
    IF a = <<>> THEN TRUE
    ELSE IF DigitVal(a[1]) # DigitVal(b[1]) THEN DigitVal(a[1]) < DigitVal(b[1])
    ELSE LexLeq(Tail(a), Tail(b))

\* a <= b for digit strings without leading zeros
DigitsLeq(a, b) == Len(a) < Len(b) \/ (Len(a) = Len(b) /\ LexLeq(a, b))

s_HEADER == <<"H", "E", "A", "D", "E", "R">>
s_BOARD_FILE == <<"B", "O", "A", "R", "D", "_", "F", "I", "L", "E">>
s_PANEL_FILE == <<"P", "A", "N", "E", "L", "_", "F", "I", "L", "E">>
s_LIBRARY_FILE == <<"L", "I", "B", "R", "A", "R", "Y", "_", "F", "I", "L", "E">>
s_3_0 == <<"3", ".", "0">>
s_MM == <<"M", "M">>
s_THOU == <<"T", "H", "O", "U">>
s_PLACEMENT == <<"P", "L", "A", "C", "E", "M", "E", "N", "T">>
s_ELECTRICAL == <<"E", "L", "E", "C", "T", "R", "I", "C", "A", "L">>
s_NOREFDES == <<"N", "O", "R", "E", "F", "D", "E", "S">>
s_BOARD == <<"B", "O", "A", "R", "D">>
s_TOP == <<"T", "O", "P">>
s_BOTTOM == <<"B", "O", "T", "T", "O", "M">>
s_PLACED == <<"P", "L", "A", "C", "E", "D">>
s_UNPLACED == <<"U", "N", "P", "L", "A", "C", "E", "D">>
s_MCAD == <<"M", "C", "A", "D">>
s_ECAD == <<"E", "C", "A", "D">>
s_PROP == <<"P", "R", "O", "P">>
s_TP == <<"T", "P">>
s_END_ == <<"E", "N", "D", "_">>
s_quotes == <<"\"", "\"">>

-----------------------------------------------------------------------------
(* Native numeric conversions (str::parse) and Display of numbers *)

U32Max == <<"4", "2", "9", "4", "9", "6", "7", "2", "9", "5">>
I64Max == <<"9", "2", "2", "3", "3", "7", "2", "0", "3", "6", "8", "5", "4", "7", "7", "5", "8", "0", "7">>
I64MinMag == <<"9", "2", "2", "3", "3", "7", "2", "0", "3", "6", "8", "5", "4", "7", "7", "5", "8", "0", "8">>

\* <u32 as FromStr>: an optional '+', at least one digit, at most u32::MAX.
\* The value is kept as its decimal digits (it may exceed the checker's integers).
parse_u32(s) ==
    LET body == IF s # <<>> /\ s[1] = "+" THEN Tail(s) ELSE s
        d == StripZeros(body)
    IN  IF body # <<>> /\ AllDigits(body) /\ DigitsLeq(d, U32Max)
        THEN [ok |-> TRUE, v |-> d]
        ELSE [ok |-> FALSE, v |-> <<>>]

\* <i64 as FromStr>: an optional sign, at least one digit, within i64's range.
parse_i64(s) ==
    LET signed == s # <<>> /\ s[1] \in {"+", "-"}
        neg == s # <<>> /\ s[1] = "-"
        body == IF signed THEN Tail(s) ELSE s
        d == StripZeros(body)
    IN  IF body # <<>> /\ AllDigits(body) /\ DigitsLeq(d, IF neg THEN I64MinMag ELSE I64Max)
        THEN [ok |-> TRUE, v |-> [neg |-> neg /\ d # <<"0">>, digits |-> d]]
        ELSE [ok |-> FALSE, v |-> [neg |-> FALSE, digits |-> <<>>]]

\* Display of an i64
fmt_i64(x) == (IF x.neg THEN <<"-">> ELSE <<>>) \o x.digits

\* index of the first '.' of s, 0 when there is none
DotAt(s) == IF \E i \in 1..Len(s) : s[i] = "." THEN CHOOSE i \in 1..Len(s) : s[i] = "." /\ \A j \in 1..(i - 1) : s[j] # "." ELSE 0

\* <f32 / f64 as FromStr> on a token of the float rule: sign, digits, '.', digits.
\* The value is a sign and a magnitude in units of 10^-FracDigits.
parse_float(s) ==
    LET signed == s # <<>> /\ s[1] \in {"+", "-"}
        body == IF signed THEN Tail(s) ELSE s
        dot == DotAt(body)
        ip == SubSeq(body, 1, dot - 1)
        fp == SubSeq(body, dot + 1, Len(body))
        kept == IF Len(fp) > FracDigits THEN SubSeq(fp, 1, FracDigits) ELSE fp
    IN  [neg |-> s # <<>> /\ s[1] = "-",
         units |-> NatOf(ip) * Pow10(FracDigits) + NatOf(kept) * Pow10(FracDigits - Len(kept))]

\* "{:.prec}" of a float: round to prec decimals (ties to even), fixed notation
fmt_float(x, prec) ==
    LET scale == Pow10(FracDigits - prec)
        q == x.units \div scale
        r == x.units % scale
        up == 2 * r > scale \/ (2 * r = scale /\ q % 2 = 1)
        n == IF up THEN q + 1 ELSE q
    IN  (IF x.neg THEN <<"-">> ELSE <<>>)
        \o NatStr(n \div Pow10(prec)) \o <<".">> \o PadStr(n % Pow10(prec), prec)

-----------------------------------------------------------------------------
(* Tokenizer / grammar: Idf30Parser (grammar idf30.pest), after spec.md 4.1 *)

\* a pair of the parse tree: its rule, its text (as_str) and its inner pairs
Tok(rule, str) == [rule |-> rule, str |-> str, inner |-> <<>>]

Node(rule, inner) == [rule |-> rule, str |-> <<>>, inner |-> inner]

\* INTEGER: optional sign + digits
IsIntegerLex(s) ==
    LET body == IF s # <<>> /\ s[1] \in {"+", "-"} THEN Tail(s) ELSE s
    IN  body # <<>> /\ AllDigits(body)

\* FLOAT: optional sign, digits, '.', digits
IsFloatLex(s) ==
    LET body == IF s # <<>> /\ s[1] \in {"+", "-"} THEN Tail(s) ELSE s
        dot == DotAt(body)
    IN  /\ dot > 1
        /\ dot < Len(body)
        /\ AllDigits(SubSeq(body, 1, dot - 1))
        /\ AllDigits(SubSeq(body, dot + 1, Len(body)))

QuoteCount(line) == Cardinality({i \in 1..Len(line) : line[i] = "\""})

\* end (exclusive) of the maximal run of non-whitespace, non-quote characters
RECURSIVE BareEnd(_, _)
BareEnd(line, i) ==
    IF i > Len(line) \/ line[i] \in {" ", "\""} THEN i ELSE BareEnd(line, i + 1)

\* position of the closing quote at or after i (quotes are balanced)
RECURSIVE QuoteEnd(_, _)
QuoteEnd(line, i) == IF line[i] = "\"" THEN i ELSE QuoteEnd(line, i + 1)

\* the raw tokens of a line from position i on: BARE_STRING runs and
\* QUOTED_STRINGs (literal contents, no escape processing)
RECURSIVE SplitFrom(_, _)
SplitFrom(line, i) ==
    IF i > Len(line) THEN <<>>
    ELSE IF line[i] = " " THEN SplitFrom(line, i + 1)
    ELSE IF line[i] = "\""
         THEN LET j == QuoteEnd(line, i + 1)
              IN  <<[q |-> TRUE, s |-> SubSeq(line, i + 1, j - 1)]>> \o SplitFrom(line, j + 1)
         ELSE LET j == BareEnd(line, i)
              IN  <<[q |-> FALSE, s |-> SubSeq(line, i, j - 1)]>> \o SplitFrom(line, j)

RECURSIVE Trim(_)
Trim(line) == IF line # <<>> /\ line[1] = " " THEN Trim(Tail(line)) ELSE line

\* "blank", "head" (.NAME arg*), "end" (.END_NAME) or "record"
LineKind(line) ==
    LET t == Trim(line)
    IN  IF t = <<>> THEN "blank"
        ELSE IF t[1] # "." THEN "record"
        ELSE IF StartsWith(Tail(t), s_END_) THEN "end"
        ELSE "head"

\* Positions the decoder reads as strings: there a bare token that looks like
\* a number is delivered under the rule string_num_allowed (the version token
\* "3.0" and the file version of every header are such tokens).
StrContext(name, r, t) ==
    \/ name = s_HEADER
    \/ name = s_PLACEMENT /\ r % 2 = 1
    \/ name = s_ELECTRICAL /\ r = 1 /\ t <= 3

\* the pair of one raw token
TagToken(raw, strctx) ==
    IF raw.q THEN Tok("quoted_string", <<"\"">> \o raw.s \o <<"\"">>)
    ELSE IF IsIntegerLex(raw.s) \/ IsFloatLex(raw.s)
         THEN IF strctx THEN Tok("string_num_allowed", raw.s)
              ELSE IF IsIntegerLex(raw.s) THEN Tok("integer", raw.s)
              ELSE Tok("float", raw.s)
    ELSE Tok("string", raw.s)

RecordNode(name, r, line) ==
    LET raws == SplitFrom(line, 1)
    IN  Node("record", [t \in 1..Len(raws) |-> TagToken(raws[t], StrContext(name, r, t))])

NameNode(name) == Node("section_name", <<Tok("string", name)>>)

\* section = section_header ~ record* ~ section_name (the terminator's name)
SectionNode(name, args, body) ==
    Node("section",
         <<Node("section_header",
                <<NameNode(name)>> \o [t \in 1..Len(args) |-> TagToken(args[t], FALSE)])>>
         \o [r \in 1..Len(body) |-> RecordNode(name, r, body[r])]
         \o <<NameNode(name)>>)

\* first line at or after i that opens or closes a section, 0 if none
RECURSIVE BodyEnd(_, _)
BodyEnd(lines, i) ==
    IF i > Len(lines) THEN 0
    ELSE IF LineKind(lines[i]) \in {"head", "end"} THEN i
    ELSE BodyEnd(lines, i + 1)

NonBlank(lines) == SelectSeq(lines, LAMBDA l : LineKind(l) # "blank")

\* the sections of lines[i..]; a record outside a section, a section without
\* its matching terminator or a nameless header is a syntax error
RECURSIVE GrammarSections(_, _)
GrammarSections(lines, i) ==
    IF i > Len(lines) THEN [ok |-> TRUE, v |-> <<>>]
    ELSE IF LineKind(lines[i]) = "blank" THEN GrammarSections(lines, i + 1)
    ELSE IF LineKind(lines[i]) # "head" THEN [ok |-> FALSE, v |-> <<>>]
    ELSE LET hdr == SplitFrom(Trim(lines[i]), 2)
             j == BodyEnd(lines, i + 1)
         IN  IF hdr = <<>> \/ hdr[1].q \/ Trim(lines[i])[2] = " " \/ j = 0
             THEN [ok |-> FALSE, v |-> <<>>]
             ELSE IF LineKind(lines[j]) # "end"
                     \/ SplitFrom(Trim(lines[j]), 6) # <<[q |-> FALSE, s |-> hdr[1].s]>>
                     \/ Len(Trim(lines[j])) # 5 + Len(hdr[1].s)
             THEN [ok |-> FALSE, v |-> <<>>]
             ELSE LET rest == GrammarSections(lines, j + 1)
                  IN  IF ~rest.ok THEN rest
                      ELSE [ok |-> TRUE,
                            v |-> <<SectionNode(hdr[1].s, Tail(hdr),
                                                NonBlank(SubSeq(lines, i + 1, j - 1)))>>
                                  \o rest.v]

\* Idf30Parser::parse(Rule::idf30, file): the sections, then EOI
Idf30Parser_parse(lines) ==
    IF \E i \in 1..Len(lines) : QuoteCount(lines[i]) % 2 = 1
    THEN [ok |-> FALSE, v |-> <<>>]
    ELSE LET g == GrammarSections(lines, 1)
         IN  IF g.ok THEN [ok |-> TRUE, v |-> g.v \o <<Node("EOI", <<>>)>>] ELSE g

-----------------------------------------------------------------------------
(* Results and the pair-reading macros *)

Ok(v) == [ok |-> TRUE, kind |-> "", arg |-> "", v |-> v]

Err(kind, arg) == [ok |-> FALSE, kind |-> kind, arg |-> arg, v |-> <<>>]

\* next_inner!: the i-th call of pairs.next(), then into_inner()
next_inner(pairs, i) ==
    IF i > Len(pairs) THEN Err("GrammarExpectedPair", "") ELSE Ok(pairs[i].inner)

\* next_str!: the text of a string or string_num_allowed pair, the contents
\* of a quoted_string pair
next_str(pairs, i) ==
    IF i > Len(pairs) THEN Err("GrammarExpectedPair", "")
    ELSE LET pair == pairs[i]
         IN  IF pair.rule \in {"string", "string_num_allowed"} THEN Ok(pair.str)
             ELSE IF pair.rule = "quoted_string"
                  THEN Ok(SubSeq(pair.str, 2, Len(pair.str) - 1))
             ELSE Err("GrammarExpectedRule", pair.rule)

\* next_int! at type u32 (the loop label)
next_int(pairs, i) ==
    IF i > Len(pairs) THEN Err("GrammarExpectedPair", "")
    ELSE LET pair == pairs[i]
         IN  IF pair.rule = "integer"
             THEN LET n == parse_u32(pair.str)
                  IN  IF n.ok THEN Ok(n.v) ELSE Err("ParseInt", "")
             ELSE Err("GrammarExpectedRule", pair.rule)

\* next_float!
next_float(pairs, i) ==
    IF i > Len(pairs) THEN Err("GrammarExpectedPair", "")
    ELSE LET pair == pairs[i]
         IN  IF pair.rule = "float" THEN Ok(parse_float(pair.str))
             ELSE Err("GrammarExpectedRule", pair.rule)

-----------------------------------------------------------------------------
(* Header decoder *)

\* variant: the catch-all arm yields Mils instead of the error
unit_of_default(s) == IF s = s_MM THEN Ok("SImm") ELSE Ok("Mils")

\* match on the unit token: "MM" => SImm, "THOU" => Mils, _ => WrongUnit
unit_of(s) ==
    IF s = s_MM THEN Ok("SImm")
    ELSE IF s = s_THOU THEN Ok("Mils")
    ELSE Err("WrongUnit", "")

\* variant: the version token is never compared
version_supported_any(v) == TRUE

\* next_str!(header_record0) != "3.0" is an UnsupportedVersion error
version_supported(v) == v = s_3_0

FileType(tag, board_name, units, components) ==
    [tag |-> tag, board_name |-> board_name, units |-> units, components |-> components]

\* the match on the file type token: BOARD_FILE and PANEL_FILE read the
\* second header record, LIBRARY_FILE starts with no components
header_ty(t, header_section) ==
    IF t \in {s_BOARD_FILE, s_PANEL_FILE}
    THEN LET header_record1 == next_inner(header_section, 3) IN
         IF ~header_record1.ok THEN header_record1 ELSE
         LET board_name == next_str(header_record1.v, 1) IN
         IF ~board_name.ok THEN board_name ELSE
         LET u == next_str(header_record1.v, 2) IN
         IF ~u.ok THEN u ELSE
         LET units == unit_of(u.v) IN
         IF ~units.ok THEN units ELSE
         Ok(FileType(IF t = s_BOARD_FILE THEN "BoardFile" ELSE "PanelFile",
                     board_name.v, units.v, <<>>))
    ELSE IF t = s_LIBRARY_FILE THEN Ok(FileType("LibraryFile", <<>>, "", <<>>))
    ELSE Err("WrongFileType", "")

parse_header(pairs) ==
    LET hs == next_inner(pairs, 1) IN
    IF ~hs.ok THEN hs ELSE
    LET header_section == hs.v
        sh == next_inner(header_section, 1) IN
    IF ~sh.ok THEN sh ELSE
    LET sn == next_inner(sh.v, 1) IN
    IF ~sn.ok THEN sn ELSE
    LET name == next_str(sn.v, 1) IN
    IF ~name.ok THEN name ELSE
    IF name.v # s_HEADER THEN Err("MissingHeader", "") ELSE
    LET header_record0 == next_inner(header_section, 2) IN
    IF ~header_record0.ok THEN header_record0 ELSE
    LET t == next_str(header_record0.v, 1) IN
    IF ~t.ok THEN t ELSE
    LET ty == header_ty(t.v, header_section) IN
    IF ~ty.ok THEN ty ELSE
    LET version == next_str(header_record0.v, 2) IN
    IF ~version.ok THEN version ELSE
    IF ~version_supported(version.v) THEN Err("UnsupportedVersion", "") ELSE
    LET source == next_str(header_record0.v, 3) IN
    IF ~source.ok THEN source ELSE
    LET date == next_str(header_record0.v, 4) IN
    IF ~date.ok THEN date ELSE
    LET bfv == next_str(header_record0.v, 5) IN
    IF ~bfv.ok THEN bfv ELSE
    LET board_file_version == parse_u32(bfv.v) IN
    IF ~board_file_version.ok THEN Err("ParseInt", "") ELSE
    Ok([ty |-> ty.v, source |-> source.v, date |-> date.v,
        board_file_version |-> board_file_version.v])

-----------------------------------------------------------------------------
(* Placement record decoder *)

designator_of(d) ==
    IF d = s_NOREFDES THEN [tag |-> "NoRefDes", name |-> <<>>]
    ELSE IF d = s_BOARD THEN [tag |-> "Board", name |-> <<>>]
    ELSE [tag |-> "Any", name |-> d]

\* variant: the catch-all arm yields Bottom instead of the error
board_side_of_default(side) == IF side = s_TOP THEN Ok("Top") ELSE Ok("Bottom")

board_side_of(side) ==
    IF side = s_TOP THEN Ok("Top")
    ELSE IF side = s_BOTTOM THEN Ok("Bottom")
    ELSE Err("Malformed", "Expected TOP or BOTTOM for side of board")

placement_status_of(st) ==
    IF st = s_PLACED THEN Ok("Placed")
    ELSE IF st = s_UNPLACED THEN Ok("Unplaced")
    ELSE IF st = s_MCAD THEN Ok("MCad")
    ELSE IF st = s_ECAD THEN Ok("ECad")
    ELSE Err("Malformed", "Wrong placement status")

\* the second record of the pair: section.next().ok_or(MalformedPlacementSection)
second_record(section, i) ==
    IF i > Len(section) THEN Err("MalformedPlacementSection", "") ELSE Ok(section[i].inner)

\* section: the pairs of the PLACEMENT section, i: the index of the pair its
\* iterator yields next, record: the tokens of the identity line
parse_component_placement(section, i, record) ==
    LET package_name == next_str(record, 1) IN
    IF ~package_name.ok THEN package_name ELSE
    LET part_number == next_str(record, 2) IN
    IF ~part_number.ok THEN part_number ELSE
    LET designator == next_str(record, 3) IN
    IF ~designator.ok THEN designator ELSE
    LET record2 == second_record(section, i) IN
    IF ~record2.ok THEN record2 ELSE
    LET x == next_float(record2.v, 1) IN
    IF ~x.ok THEN x ELSE
    LET y == next_float(record2.v, 2) IN
    IF ~y.ok THEN y ELSE
    LET z == next_float(record2.v, 3) IN
    IF ~z.ok THEN z ELSE
    LET rotation == next_float(record2.v, 4) IN
    IF ~rotation.ok THEN rotation ELSE
    LET side == next_str(record2.v, 5) IN
    IF ~side.ok THEN side ELSE
    LET board_side == board_side_of(side.v) IN
    IF ~board_side.ok THEN board_side ELSE
    LET st == next_str(record2.v, 6) IN
    IF ~st.ok THEN st ELSE
    LET placement_status == placement_status_of(st.v) IN
    IF ~placement_status.ok THEN placement_status ELSE
    Ok([package_name |-> package_name.v, part_number |-> part_number.v,
        designator |-> designator_of(designator.v),
        x |-> x.v, y |-> y.v, z |-> z.v, rotation |-> rotation.v,
        board_side |-> board_side.v, placement_status |-> placement_status.v])

\* the while-let loop over a PLACEMENT section, from pair i on; acc is what
\* was pushed so far
RECURSIVE placement_loop(_, _, _)
placement_loop(section, i, acc) ==
    IF i > Len(section) THEN Ok(acc)
    ELSE IF section[i].rule = "section_name" THEN Ok(acc)
    ELSE LET component == parse_component_placement(section, i + 1, section[i].inner)
         IN  IF ~component.ok THEN component
             ELSE placement_loop(section, i + 2, Append(acc, component.v))

-----------------------------------------------------------------------------
(* Component-definition decoder *)

\* variant: the label is compared with 1 instead of 0
loop_label_of_one(label) == IF label = <<"1">> THEN "Clockwise" ELSE "CounterClockwise"

\* label == 0 => CounterClockwise, else Clockwise
loop_label_of(label) == IF label = <<"0">> THEN "CounterClockwise" ELSE "Clockwise"

\* one outline record
parse_point(coords) ==
    LET label == next_int(coords, 1) IN
    IF ~label.ok THEN label ELSE
    LET x == next_float(coords, 2) IN
    IF ~x.ok THEN x ELSE
    LET y == next_float(coords, 3) IN
    IF ~y.ok THEN y ELSE
    LET angle == next_float(coords, 4) IN
    IF ~angle.ok THEN angle ELSE
    Ok([label |-> loop_label_of(label.v), x |-> x.v, y |-> y.v, angle |-> angle.v])

\* coords.peek() is a pair whose text is "PROP"
is_prop(coords) == coords # <<>> /\ coords[1].str = s_PROP

\* the while-let loop over the records after the first, from pair i on
RECURSIVE points_loop(_, _, _)
points_loop(section, i, acc) ==
    IF i > Len(section) THEN Ok(acc)
    ELSE IF section[i].rule = "section_name" THEN Ok(acc)
    ELSE IF is_prop(section[i].inner) THEN points_loop(section, i + 1, acc)
    ELSE LET p == parse_point(section[i].inner)
         IN  IF ~p.ok THEN p ELSE points_loop(section, i + 1, Append(acc, p.v))

\* section: the pairs of an ELECTRICAL section, its header already consumed
parse_component_definition(section) ==
    LET record2 == next_inner(section, 2) IN
    IF ~record2.ok THEN record2 ELSE
    LET geometry_name == next_str(record2.v, 1) IN
    IF ~geometry_name.ok THEN geometry_name ELSE
    LET part_number == next_str(record2.v, 2) IN
    IF ~part_number.ok THEN part_number ELSE
    LET u == next_str(record2.v, 3) IN
    IF ~u.ok THEN u ELSE
    LET units == unit_of(u.v) IN
    IF ~units.ok THEN units ELSE
    LET height == next_float(record2.v, 4) IN
    IF ~height.ok THEN height ELSE
    LET points == points_loop(section, 3, <<>>) IN
    IF ~points.ok THEN points ELSE
    Ok([geometry_name |-> geometry_name.v, part_number |-> part_number.v,
        units |-> units.v, height |-> height.v, points |-> points.v])

-----------------------------------------------------------------------------
(* Generic sections *)

IdfValue(kind, int, flt, str) == [kind |-> kind, int |-> int, flt |-> flt, str |-> str]

NoInt == [neg |-> FALSE, digits |-> <<>>]

NoFloat == [neg |-> FALSE, units |-> 0]

\* variant: the quoted_string arm is missing
value_of_unquoted(p) ==
    IF p.rule = "integer"
    THEN LET n == parse_i64(p.str)
         IN  IF n.ok THEN Ok(IdfValue("Integer", n.v, NoFloat, <<>>)) ELSE Err("ParseInt", "")
    ELSE IF p.rule = "float" THEN Ok(IdfValue("Float", NoInt, parse_float(p.str), <<>>))
    ELSE IF p.rule = "string" THEN Ok(IdfValue("String", NoInt, NoFloat, p.str))
    ELSE Err("GrammarExpectedRule", "value")

\* the closure mapped over a record's pairs
value_of(p) ==
    IF p.rule = "integer"
    THEN LET n == parse_i64(p.str)
         IN  IF n.ok THEN Ok(IdfValue("Integer", n.v, NoFloat, <<>>)) ELSE Err("ParseInt", "")
    ELSE IF p.rule = "float" THEN Ok(IdfValue("Float", NoInt, parse_float(p.str), <<>>))
    ELSE IF p.rule \in {"string", "quoted_string"}
         THEN Ok(IdfValue("String", NoInt, NoFloat, p.str))
    ELSE Err("GrammarExpectedRule", "value")

\* collect::<Result<Vec<IdfValue>, Error>>(): the values, or the first error
RECURSIVE values_of(_, _, _)
values_of(record, t, acc) ==
    IF t > Len(record) THEN Ok(acc)
    ELSE LET v == value_of(record[t])
         IN  IF ~v.ok THEN v ELSE values_of(record, t + 1, Append(acc, v.v))

RECURSIVE records_loop(_, _, _)
records_loop(section, i, acc) ==
    IF i > Len(section) THEN Ok(acc)
    ELSE IF section[i].rule = "section_name" THEN Ok(acc)
    ELSE LET values == values_of(section[i].inner, 1, <<>>)
         IN  IF ~values.ok THEN values
             ELSE records_loop(section, i + 1, Append(acc, values.v))

\* section_header: the pairs of the section header, its name already consumed
parse_other_section(section, section_header, section_name) ==
    LET args == [a \in 1..(Len(section_header) - 1) |-> section_header[a + 1].str]
        records == records_loop(section, 2, <<>>)
    IN  IF ~records.ok THEN records
        ELSE Ok([name |-> section_name, args |-> args, records |-> records.v])

\* the name the dispatcher reads from a section pair
section_name_of(section) ==
    LET section_header == next_inner(section, 1) IN
    IF ~section_header.ok THEN section_header ELSE
    LET sn == next_inner(section_header.v, 1) IN
    IF ~sn.ok THEN sn ELSE
    next_str(sn.v, 1)

-----------------------------------------------------------------------------
(* Encoder: the Display impls and to_string.  A value is the sequence of     *)
(* lines it writes, each line without its "\n".                              *)

\* "" for the empty string, the string itself otherwise
escape_string(s) == IF s = <<>> THEN s_quotes ELSE s

Unit_fmt(u) == IF u = "SImm" THEN s_MM ELSE s_THOU

FileType_fmt(ty) ==
    IF ty.tag = "BoardFile" THEN s_BOARD_FILE
    ELSE IF ty.tag = "PanelFile" THEN s_PANEL_FILE
    ELSE s_LIBRARY_FILE

\* ".HEADER\n{} 3.0 {} {} {}\n{}.END_HEADER\n", record1 = "{} {}\n" for a
\* board or panel file and empty for a library file
Header_fmt(h) ==
    LET record1 == IF h.ty.tag \in {"BoardFile", "PanelFile"}
                   THEN <<Join(<<h.ty.board_name, Unit_fmt(h.ty.units)>>)>>
                   ELSE <<>>
    IN  <<<<".">> \o s_HEADER,
          Join(<<FileType_fmt(h.ty), s_3_0, h.source, h.date, h.board_file_version>>)>>
        \o record1
        \o <<<<".">> \o s_END_ \o s_HEADER>>

IdfValue_fmt(v) ==
    IF v.kind = "Integer" THEN fmt_i64(v.int)
    ELSE IF v.kind = "Float" THEN fmt_float(v.flt, 4)
    ELSE escape_string(v.str)

\* ".{}{}\n{}.END_{}\n": each arg as " {arg}", each record as " " then " {v}"
\* per value
IdfSection_fmt(sec) ==
    LET args == Cat([a \in 1..Len(sec.args) |-> <<" ">> \o sec.args[a]])
        rec(r) == <<" ">> \o Cat([t \in 1..Len(r) |-> <<" ">> \o IdfValue_fmt(r[t])])
    IN  <<<<".">> \o sec.name \o args>>
        \o [r \in 1..Len(sec.records) |-> rec(sec.records[r])]
        \o <<<<".">> \o s_END_ \o sec.name>>

ReferenceDesignator_fmt(d) ==
    IF d.tag = "Any" THEN d.name
    ELSE IF d.tag = "NoRefDes" THEN s_NOREFDES
    ELSE s_BOARD

BoardSide_fmt(b) == IF b = "Top" THEN s_TOP ELSE s_BOTTOM

PlacementStatus_fmt(p) ==
    IF p = "Placed" THEN s_PLACED
    ELSE IF p = "Unplaced" THEN s_UNPLACED
    ELSE IF p = "MCad" THEN s_MCAD
    ELSE s_ECAD

\* "{} {} {}\n  {:.4} {:.4} {:.4} {:.3} {} {}\n"
ComponentPlacement_fmt(c) ==
    <<Join(<<escape_string(c.package_name), escape_string(c.part_number),
             ReferenceDesignator_fmt(c.designator)>>),
      <<" ", " ">> \o Join(<<fmt_float(c.x, 4), fmt_float(c.y, 4), fmt_float(c.z, 4),
                             fmt_float(c.rotation, 3), BoardSide_fmt(c.board_side),
                             PlacementStatus_fmt(c.placement_status)>>)>>

\* "{} {:.4} {:.4} {:.4}\n" with label 0 for CounterClockwise, 1 otherwise
Point_fmt(p) ==
    Join(<<IF p.label = "CounterClockwise" THEN <<"0">> ELSE <<"1">>,
           fmt_float(p.x, 4), fmt_float(p.y, 4), fmt_float(p.angle, 4)>>)

ComponentDefinition_to_string(def) ==
    <<<<".">> \o s_ELECTRICAL,
      Join(<<def.geometry_name, def.part_number, Unit_fmt(def.units),
             fmt_float(def.height, 4)>>)>>
    \o [p \in 1..Len(def.points) |-> Point_fmt(def.points[p])]
    \o <<<<".">> \o s_END_ \o s_ELECTRICAL>>

\* the PLACEMENT block of a board file
placement_block(pl) ==
    <<<<".">> \o s_PLACEMENT>>
    \o Cat([c \in 1..Len(pl) |-> ComponentPlacement_fmt(pl[c])])
    \o <<<<".">> \o s_END_ \o s_PLACEMENT>>

\* variant: a panel file writes the PLACEMENT block as a board file does
type_blocks_panel(h, pl) ==
    IF h.ty.tag \in {"BoardFile", "PanelFile"} THEN placement_block(pl)
    ELSE Cat([d \in 1..Len(h.ty.components) |->
                 ComponentDefinition_to_string(h.ty.components[d])])

\* the match on header.ty at the end of to_string
type_blocks(h, pl) ==
    IF h.ty.tag = "BoardFile" THEN placement_block(pl)
    ELSE IF h.ty.tag = "PanelFile" THEN <<>>
    ELSE Cat([d \in 1..Len(h.ty.components) |->
                 ComponentDefinition_to_string(h.ty.components[d])])

to_string(h, pl, others) ==
    Header_fmt(h)
    \o Cat([o \in 1..Len(others) |-> IdfSection_fmt(others[o])])
    \o type_blocks(h, pl)

\* variant: the prefix of the name is not compared
is_test_point_any(d) == d.tag = "Any"

\* ReferenceDesignator::is_test_point
is_test_point(d) == d.tag = "Any" /\ StartsWith(d.name, s_TP)

-----------------------------------------------------------------------------
(* Input documents: the texts Init draws from *)

w_OTHER_FILE == <<"O", "T", "H", "E", "R", "_", "F", "I", "L", "E">>
w_2_0 == <<"2", ".", "0">>
w_SRC == <<"S", "R", "C">>
w_qEmpty == <<"\"", "\"">>
w_qAB == <<"\"", "A", " ", "B", "\"">>
w_DATE == <<"2", "0", "2", "4", "/", "0", "1", "/", "3", "1">>
w_1 == <<"1">>
w_u32over == <<"4", "2", "9", "4", "9", "6", "7", "2", "9", "6">>
w_NOTES == <<"N", "O", "T", "E", "S">>
w_OUTLINE == <<"O", "U", "T", "L", "I", "N", "E">>
w_Header == <<"H", "e", "a", "d", "e", "r">>

\* BRD MM
rec1_mm == <<"B", "R", "D", " ", "M", "M">>
\* BRD THOU
rec1_thou == <<"B", "R", "D", " ", "T", "H", "O", "U">>
\* BRD INCH
rec1_inch == <<"B", "R", "D", " ", "I", "N", "C", "H">>
\* "" MM
rec1_empty == <<"\"", "\"", " ", "M", "M">>
\* PKG PN R1
id_r1 == <<"P", "K", "G", " ", "P", "N", " ", "R", "1">>
\* "" "" TP3
id_tp3 == <<"\"", "\"", " ", "\"", "\"", " ", "T", "P", "3">>
\* PKG "A B" NOREFDES
id_norefdes == <<"P", "K", "G", " ", "\"", "A", " ", "B", "\"", " ", "N", "O", "R", "E", "F", "D", "E", "S">>
\* PKG 0603 BOARD
id_board == <<"P", "K", "G", " ", "0", "6", "0", "3", " ", "B", "O", "A", "R", "D">>
\* PKG PN ""
id_nodes == <<"P", "K", "G", " ", "P", "N", " ", "\"", "\"">>
\* PKG PN XTP1
id_xtp == <<"P", "K", "G", " ", "P", "N", " ", "X", "T", "P", "1">>
\* PKG PN T
id_t == <<"P", "K", "G", " ", "P", "N", " ", "T">>
\* PKG PN "BOARD"
id_qboard == <<"P", "K", "G", " ", "P", "N", " ", "\"", "B", "O", "A", "R", "D", "\"">>
\* 1.5 2.0 0.0 90.0 TOP PLACED
geo_top == <<"1", ".", "5", " ", "2", ".", "0", " ", "0", ".", "0", " ", "9", "0", ".", "0", " ", "T", "O", "P", " ", "P", "L", "A", "C", "E", "D">>
\* -1.25 0.00016 3.0 45.1234 BOTTOM UNPLACED
geo_bottom == <<"-", "1", ".", "2", "5", " ", "0", ".", "0", "0", "0", "1", "6", " ", "3", ".", "0", " ", "4", "5", ".", "1", "2", "3", "4", " ", "B", "O", "T", "T", "O", "M", " ", "U", "N", "P", "L", "A", "C", "E", "D">>
\* 0.0 0.0 0.0 0.0 TOP MCAD
geo_mcad == <<"0", ".", "0", " ", "0", ".", "0", " ", "0", ".", "0", " ", "0", ".", "0", " ", "T", "O", "P", " ", "M", "C", "A", "D">>
\* 0.0 0.0 0.0 180.0 BOTTOM ECAD
geo_ecad == <<"0", ".", "0", " ", "0", ".", "0", " ", "0", ".", "0", " ", "1", "8", "0", ".", "0", " ", "B", "O", "T", "T", "O", "M", " ", "E", "C", "A", "D">>
\* 1.5 2.0 0.0 90.0 LEFT PLACED
geo_badside == <<"1", ".", "5", " ", "2", ".", "0", " ", "0", ".", "0", " ", "9", "0", ".", "0", " ", "L", "E", "F", "T", " ", "P", "L", "A", "C", "E", "D">>
\* 1.5 2.0 0.0 90.0 TOP DONE
geo_badstatus == <<"1", ".", "5", " ", "2", ".", "0", " ", "0", ".", "0", " ", "9", "0", ".", "0", " ", "T", "O", "P", " ", "D", "O", "N", "E">>
\* GEO PN MM 1.0
el_mm == <<"G", "E", "O", " ", "P", "N", " ", "M", "M", " ", "1", ".", "0">>
\* GEO PN INCH 1.0
el_inch == <<"G", "E", "O", " ", "P", "N", " ", "I", "N", "C", "H", " ", "1", ".", "0">>
\* "" "" THOU 0.5
el_thou == <<"\"", "\"", " ", "\"", "\"", " ", "T", "H", "O", "U", " ", "0", ".", "5">>
\* 0 0.0 0.0 0.0
out_ccw == <<"0", " ", "0", ".", "0", " ", "0", ".", "0", " ", "0", ".", "0">>
\* 1 1.0 0.5 360.0
out_cw == <<"1", " ", "1", ".", "0", " ", "0", ".", "5", " ", "3", "6", "0", ".", "0">>
\* -1 0.0 1.0 0.0
out_neg == <<"-", "1", " ", "0", ".", "0", " ", "1", ".", "0", " ", "0", ".", "0">>
\* +0 1.0 1.0 0.0
out_plus0 == <<"+", "0", " ", "1", ".", "0", " ", "1", ".", "0", " ", "0", ".", "0">>
\* -0 0.0 0.0 0.0
out_neg0 == <<"-", "0", " ", "0", ".", "0", " ", "0", ".", "0", " ", "0", ".", "0">>
\* 2 0.5 0.5 0.0
out_two == <<"2", " ", "0", ".", "5", " ", "0", ".", "5", " ", "0", ".", "0">>
\* 4294967296 0.0 0.0 0.0
out_over == <<"4", "2", "9", "4", "9", "6", "7", "2", "9", "6", " ", "0", ".", "0", " ", "0", ".", "0", " ", "0", ".", "0">>
\* PROP CAPACITANCE 10.0
out_prop == <<"P", "R", "O", "P", " ", "C", "A", "P", "A", "C", "I", "T", "A", "N", "C", "E", " ", "1", "0", ".", "0">>
\* 7 2.5 ABC "A B"
gen_mixed == <<"7", " ", "2", ".", "5", " ", "A", "B", "C", " ", "\"", "A", " ", "B", "\"">>
\* -3 +4 ""
gen_signed == <<"-", "3", " ", "+", "4", " ", "\"", "\"">>
\* 99999999999999999999
gen_i64over == <<"9", "9", "9", "9", "9", "9", "9", "9", "9", "9", "9", "9", "9", "9", "9", "9", "9", "9", "9", "9">>
\* ECAD 2 "X Y"
gen_args == <<"E", "C", "A", "D", " ", "2", " ", "\"", "X", " ", "Y", "\"">>
\* PKG PN R1 X
stray == <<"P", "K", "G", " ", "P", "N", " ", "R", "1", " ", "X">>

RECURSIVE SeqsOfLen(_, _)
SeqsOfLen(S, n) ==
    IF n = 0 THEN {<<>>} ELSE {<<x>> \o r : x \in S, r \in SeqsOfLen(S, n - 1)}

\* the sequences over S of length lo..hi
SeqsUpTo(S, lo, hi) == UNION {SeqsOfLen(S, n) : n \in lo..hi}

\* the lines of one section: ".NAME args", its records, ".END_NAME"
Block(name, args, body) ==
    <<<<".">> \o name \o (IF args = <<>> THEN <<>> ELSE <<" ">> \o args)>>
    \o body
    \o <<<<".">> \o s_END_ \o name>>

HeaderRecord0s ==
    {Join(<<ty, ver, src, w_DATE, n>>) :
        ty \in {s_BOARD_FILE, s_PANEL_FILE, s_LIBRARY_FILE, w_OTHER_FILE},
        ver \in {s_3_0, w_2_0},
        src \in {w_SRC, w_qEmpty, w_qAB},
        n \in {w_1, w_u32over}}

HeaderRecord1s == {<<>>, <<rec1_mm>>, <<rec1_thou>>, <<rec1_inch>>, <<rec1_empty>>}

HeaderBlocks ==
    {Block(s_HEADER, <<>>, <<r0>> \o r1) : r0 \in HeaderRecord0s, r1 \in HeaderRecord1s}
    \cup {Block(s_HEADER, <<>>, <<>>)}

\* one well-formed header per file type
CoreHeader(ty) ==
    Block(s_HEADER, <<>>,
          <<Join(<<ty, s_3_0, w_SRC, w_DATE, w_1>>)>>
          \o (IF ty = s_LIBRARY_FILE THEN <<>> ELSE <<rec1_mm>>))

CoreHeaders == {CoreHeader(ty) : ty \in {s_BOARD_FILE, s_PANEL_FILE, s_LIBRARY_FILE}}

IdLines == {id_r1, id_tp3, id_norefdes, id_board, id_nodes, id_xtp, id_t, id_qboard}

GeoLines == {geo_top, geo_bottom, geo_mcad, geo_ecad, geo_badside, geo_badstatus}

\* an identity line and its geometry line
PlacementEntities ==
    {<<id, geo_top>> : id \in IdLines} \cup {<<id_r1, geo>> : geo \in GeoLines}

PlacementBodies ==
    {b \in {Cat(es) \o lone : es \in SeqsUpTo(PlacementEntities, 0, MaxRecords \div 2),
                              lone \in {<<>>, <<id_r1>>}} :
        Len(b) <= MaxRecords}

OutlineLines ==
    {out_ccw, out_cw, out_neg, out_prop, out_plus0, out_neg0, out_two, out_over}

ElectricalBodies ==
    {<<>>, <<el_mm>>, <<el_inch>>, <<el_thou>>}
    \cup {<<el_mm>> \o os :
            os \in SeqsUpTo(OutlineLines, 1, MaxRecords - 1)}

GenericBodies == SeqsUpTo({gen_mixed, gen_signed, gen_i64over}, 0, MaxRecords)

\* the sections of the documents with one section after the header
RichSections ==
    {Block(s_PLACEMENT, <<>>, b) : b \in PlacementBodies}
    \cup {Block(s_ELECTRICAL, <<>>, b) : b \in ElectricalBodies}
    \cup {Block(w_NOTES, <<>>, b) : b \in GenericBodies}
    \cup {Block(w_OUTLINE, gen_args, <<gen_mixed>>)}

\* the sections of the documents with several sections after the header
PlainSections ==
    {Block(s_PLACEMENT, <<>>, <<id_r1, geo_top>>),
     Block(s_PLACEMENT, <<>>, <<id_tp3, geo_bottom>>),
     Block(s_PLACEMENT, <<>>, <<id_r1>>),
     Block(s_ELECTRICAL, <<>>, <<el_mm, out_ccw>>),
     Block(s_ELECTRICAL, <<>>, <<el_thou, out_cw, out_ccw>>),
     Block(s_ELECTRICAL, <<>>, <<el_inch>>),
     Block(w_NOTES, <<>>, <<gen_mixed>>),
     Block(w_OUTLINE, gen_args, <<gen_signed>>)}

\* texts without a leading HEADER section, and texts the grammar rejects
NoHeaderDocs ==
    {<<>>,
     <<stray>>,
     <<<<".">> \o s_HEADER>>,
     Block(s_PLACEMENT, <<>>, <<id_r1, geo_top>>),
     Block(w_NOTES, <<>>, <<>>),
     Block(w_Header, <<>>, <<Join(<<s_BOARD_FILE, s_3_0, w_SRC, w_DATE, w_1>>), rec1_mm>>),
     Block(w_NOTES, <<>>, <<gen_mixed>>) \o CoreHeader(s_BOARD_FILE)}

Documents ==
    HeaderBlocks
    \cup {h \o sec : h \in CoreHeaders, sec \in RichSections}
    \cup {h \o Cat(secs) : h \in CoreHeaders, secs \in SeqsUpTo(PlainSections, 2, MaxSections)}
    \cup NoHeaderDocs

-----------------------------------------------------------------------------
(* The decode and encode calls *)

NoHeader ==
    [ty |-> FileType("", <<>>, "", <<>>), source |-> <<>>, date |-> <<>>,
     board_file_version |-> <<>>]

NoResult == [ok |-> FALSE, kind |-> "", arg |-> ""]

NoFirst ==
    [header |-> NoHeader, placement |-> <<>>, other_sections |-> <<>>, file |-> <<>>]

Init ==
    /\ file \in Documents
    /\ idf30 = <<>>
    /\ pos = 0
    /\ pc = "start"
    /\ pass = 1
    /\ header = NoHeader
    /\ placement = <<>>
    /\ other_sections = <<>>
    /\ components_definitions = <<>>
    /\ result = NoResult
    /\ text = <<>>
    /\ first = NoFirst

\* the `?` operator: the call returns the error, no document is built
Fail(e) ==
    /\ pc' = "failed"
    /\ result' = [ok |-> FALSE, kind |-> e.kind, arg |-> e.arg]

\* Idf30Parser::parse(Rule::idf30, file)? succeeds.  For a text without any
\* section the grammar may yield the lone EOI pair.
PestParse ==
    /\ pc = "start"
    /\ Idf30Parser_parse(file).ok
    /\ idf30' = Idf30Parser_parse(file).v
    /\ pos' = 1
    /\ pc' = "header"
    /\ UNCHANGED <<file, pass, header, placement, other_sections,
                   components_definitions, result, text, first>>

\* Idf30Parser::parse(Rule::idf30, file)? fails.  For a text without any
\* section the grammar may also demand one.
PestReject ==
    /\ pc = "start"
    /\ \/ ~Idf30Parser_parse(file).ok
       \/ Len(Idf30Parser_parse(file).v) = 1
    /\ Fail(Err("Pest", ""))
    /\ UNCHANGED <<file, idf30, pos, pass, header, placement, other_sections,
                   components_definitions, text, first>>

\* let mut header = parse_header(&mut idf30)?
ParseHeader ==
    /\ pc = "header"
    /\ LET h == parse_header(idf30)
       IN  IF h.ok
           THEN /\ header' = h.v
                /\ pos' = 2
                /\ pc' = "sections"
                /\ UNCHANGED result
           ELSE /\ Fail(h)
                /\ UNCHANGED <<header, pos>>
    /\ UNCHANGED <<file, idf30, pass, placement, other_sections,
                   components_definitions, text, first>>

\* the loop has a next pair and it is not EOI
AtSection == pc = "sections" /\ pos <= Len(idf30) /\ idf30[pos].rule # "EOI"

\* one iteration of the loop on a section named PLACEMENT
ParsePlacementSection ==
    /\ AtSection
    /\ LET section == idf30[pos].inner
           name == section_name_of(section)
       IN  /\ name.ok
           /\ name.v = s_PLACEMENT
           /\ LET r == placement_loop(section, 2, placement)
              IN  IF r.ok
                  THEN /\ placement' = r.v
                       /\ pos' = pos + 1
                       /\ UNCHANGED <<pc, result>>
                  ELSE /\ Fail(r)
                       /\ UNCHANGED <<placement, pos>>
    /\ UNCHANGED <<file, idf30, pass, header, other_sections,
                   components_definitions, text, first>>

\* one iteration of the loop on a section named ELECTRICAL
ParseElectricalSection ==
    /\ AtSection
    /\ LET section == idf30[pos].inner
           name == section_name_of(section)
       IN  /\ name.ok
           /\ name.v = s_ELECTRICAL
           /\ LET r == parse_component_definition(section)
              IN  IF r.ok
                  THEN /\ components_definitions' = Append(components_definitions, r.v)
                       /\ pos' = pos + 1
                       /\ UNCHANGED <<pc, result>>
                  ELSE /\ Fail(r)
                       /\ UNCHANGED <<components_definitions, pos>>
    /\ UNCHANGED <<file, idf30, pass, header, placement, other_sections, text, first>>

\* one iteration of the loop on any other section (or on a section whose
\* name cannot be read)
ParseOtherSection ==
    /\ AtSection
    /\ LET section == idf30[pos].inner
           name == section_name_of(section)
       IN  /\ name.ok => name.v \notin {s_PLACEMENT, s_ELECTRICAL}
           /\ LET r == IF name.ok
                       THEN parse_other_section(section, section[1].inner, name.v)
                       ELSE name
              IN  IF r.ok
                  THEN /\ other_sections' = Append(other_sections, r.v)
                       /\ pos' = pos + 1
                       /\ UNCHANGED <<pc, result>>
                  ELSE /\ Fail(r)
                       /\ UNCHANGED <<other_sections, pos>>
    /\ UNCHANGED <<file, idf30, pass, header, placement,
                   components_definitions, text, first>>

\* variant: only the definition decoded last is kept
with_components_last(h, defs) ==
    IF h.ty.tag = "LibraryFile"
    THEN [h EXCEPT !.ty = FileType("LibraryFile", <<>>, "",
                                   IF defs = <<>> THEN <<>> ELSE <<defs[Len(defs)]>>)]
    ELSE h

\* the components of a library file are set after the loop
with_components(h, defs) ==
    IF h.ty.tag = "LibraryFile"
    THEN [h EXCEPT !.ty = FileType("LibraryFile", <<>>, "", defs)]
    ELSE h

\* the loop ends (EOI or no pair left): Ok(Idf30 { header, placement, other_sections })
ParseFinish ==
    /\ pc = "sections"
    /\ pos > Len(idf30) \/ idf30[pos].rule = "EOI"
    /\ header' = with_components(header, components_definitions)
    /\ result' = [ok |-> TRUE, kind |-> "", arg |-> ""]
    /\ pc' = "parsed"
    /\ UNCHANGED <<file, idf30, pos, pass, placement, other_sections,
                   components_definitions, text, first>>

\* Idf30::to_string on the decoded document
ToString ==
    /\ pc = "parsed"
    /\ text' = to_string(header, placement, other_sections)
    /\ pc' = "encoded"
    /\ UNCHANGED <<file, idf30, pos, pass, header, placement, other_sections,
                   components_definitions, result, first>>

\* the encoder's output is decoded again
Reparse ==
    /\ pc = "encoded"
    /\ pass = 1
    /\ first' = [header |-> header, placement |-> placement,
                 other_sections |-> other_sections, file |-> file]
    /\ file' = text
    /\ idf30' = <<>>
    /\ pos' = 0
    /\ pc' = "start"
    /\ pass' = 2
    /\ header' = NoHeader
    /\ placement' = <<>>
    /\ other_sections' = <<>>
    /\ components_definitions' = <<>>
    /\ result' = NoResult
    /\ text' = <<>>

Next ==
    \/ PestParse
    \/ PestReject
    \/ ParseHeader
    \/ ParsePlacementSection
    \/ ParseElectricalSection
    \/ ParseOtherSection
    \/ ParseFinish
    \/ ToString
    \/ Reparse

Spec == Init /\ [][Next]_vars

-----------------------------------------------------------------------------
(* Vocabulary of the properties: what a document's parse tree holds and how  *)
(* far the decode call got                                                   *)

IsStrTok(t) == t.rule \in {"string", "string_num_allowed", "quoted_string"}

\* the text of a string token, without the quotes of a quoted one
TokText(t) == IF t.rule = "quoted_string" THEN SubSeq(t.str, 2, Len(t.str) - 1) ELSE t.str

\* positions of the sections in idf30 (the last pair is EOI)
SectionIdx == 1..(Len(idf30) - 1)

SecName(sec) == sec.inner[1].inner[1].inner[1].str

SecArgs(sec) == Tail(sec.inner[1].inner)

\* the records of a section, each the sequence of its tokens
SecRecords(sec) ==
    LET recs == SelectSeq(sec.inner, LAMBDA q : q.rule = "record")
    IN  [r \in 1..Len(recs) |-> recs[r].inner]

\* the decoder went past the pair at position p
Passed(p) == pc \in {"sections", "parsed", "encoded", "failed"} /\ pos > p

\* the decode call returned an error while at the pair at position p
FailedAt(p) == pc = "failed" /\ pos = p

Decoded == pc \in {"parsed", "encoded"}

\* positions (ascending) of the sections after the header that satisfy P
RECURSIVE IdxFrom(_, _)
IdxFrom(P(_), p) ==
    IF p > Len(idf30) - 1 THEN <<>>
    ELSE (IF P(idf30[p]) THEN <<p>> ELSE <<>>) \o IdxFrom(P, p + 1)

IsElectrical(sec) == SecName(sec) = s_ELECTRICAL

IsPlacement(sec) == SecName(sec) = s_PLACEMENT

IsGeneric(sec) == SecName(sec) \notin {s_PLACEMENT, s_ELECTRICAL}

\* how many positions of idx lie before p
CountBefore(idx, p) == Cardinality({k \in 1..Len(idx) : idx[k] < p})

-----------------------------------------------------------------------------
(* Shapes of records, as the decoders expect them *)

\* an identity line: three string tokens
GoodId(rec) == Len(rec) >= 3 /\ \A k \in 1..3 : IsStrTok(rec[k])

FloatsOk(rec) == Len(rec) >= 4 /\ \A k \in 1..4 : rec[k].rule = "float"

SideOk(rec) ==
    Len(rec) >= 5 /\ IsStrTok(rec[5]) /\ TokText(rec[5]) \in {s_TOP, s_BOTTOM}

StatusOk(rec) ==
    /\ Len(rec) >= 6
    /\ IsStrTok(rec[6])
    /\ TokText(rec[6]) \in {s_PLACED, s_UNPLACED, s_MCAD, s_ECAD}

\* a geometry line: four floats, a side, a status
GoodGeo(rec) == FloatsOk(rec) /\ SideOk(rec) /\ StatusOk(rec)

\* records 2k-1 and 2k form a decodable pair for every k up to n
PairsGood(recs, n) == \A k \in 1..n : GoodId(recs[2 * k - 1]) /\ GoodGeo(recs[2 * k])

HasHeaderRecord0 ==
    /\ Len(idf30) > 1
    /\ SecName(idf30[1]) = s_HEADER
    /\ Len(SecRecords(idf30[1])) >= 1

HeaderRecords == SecRecords(idf30[1])

TypeToken == TokText(HeaderRecords[1][1])

\* the second header record holds a board name and a unit MM or THOU
GoodRecord1 ==
    /\ Len(HeaderRecords) >= 2
    /\ Len(HeaderRecords[2]) >= 2
    /\ IsStrTok(HeaderRecords[2][1])
    /\ IsStrTok(HeaderRecords[2][2])
    /\ TokText(HeaderRecords[2][2]) \in {s_MM, s_THOU}

-----------------------------------------------------------------------------
(* C1 *)

\* C1 (as claimed): for a Board file, decoding the encoder's output succeeds
\* and gives the header, the placements and the generic sections of the
\* first decoding.
C1_RoundTripIsIdentity ==
    (pass = 2 /\ first.header.ty.tag = "BoardFile") =>
        /\ pc # "failed"
        /\ Decoded => /\ header = first.header
                      /\ placement = first.placement
                      /\ other_sections = first.other_sections

-----------------------------------------------------------------------------
(* C2 *)

\* a PLACEMENT section with an odd number of records whose only defect is
\* the unpaired last record
OddPlacement(sec) ==
    /\ IsPlacement(sec)
    /\ LET recs == SecRecords(sec)
       IN  /\ Len(recs) % 2 = 1
           /\ PairsGood(recs, Len(recs) \div 2)
           /\ GoodId(recs[Len(recs)])

\* C2 (as claimed): a PLACEMENT section with an odd number of records makes
\* decoding fail with MalformedPlacementSection and no other error.
C2_OddPlacementIsMalformed ==
    \A p \in SectionIdx :
        (p >= 2 /\ OddPlacement(idf30[p])) =>
            /\ ~Passed(p)
            /\ FailedAt(p) => result.kind = "MalformedPlacementSection"

-----------------------------------------------------------------------------
(* C3 *)

VersionNot30 ==
    /\ HasHeaderRecord0
    /\ Len(HeaderRecords[1]) >= 2
    /\ IsStrTok(HeaderRecords[1][1])
    /\ IsStrTok(HeaderRecords[1][2])
    /\ TokText(HeaderRecords[1][2]) # s_3_0

\* C3 (as claimed): a version token other than "3.0" fails with
\* UnsupportedVersion whatever the file type token and the second header
\* record are.
C3_AnyTypeUnsupportedVersion ==
    (VersionNot30 /\ pc \notin {"start", "header"}) =>
        (FailedAt(1) /\ result.kind = "UnsupportedVersion")

\* C3 (amended): a version token other than "3.0" always makes decoding fail;
\* the error is UnsupportedVersion when the file type token is LIBRARY_FILE,
\* or is BOARD_FILE or PANEL_FILE with a second header record holding a board
\* name and a unit MM or THOU; with any other file type token it is
\* WrongFileType.
C3_UnsupportedVersion ==
    (VersionNot30 /\ pc \notin {"start", "header"}) =>
        /\ FailedAt(1)
        /\ (TypeToken = s_LIBRARY_FILE
            \/ (TypeToken \in {s_BOARD_FILE, s_PANEL_FILE} /\ GoodRecord1))
           => result.kind = "UnsupportedVersion"
        /\ TypeToken \notin {s_BOARD_FILE, s_PANEL_FILE, s_LIBRARY_FILE}
           => result.kind = "WrongFileType"

\* a panel file with a well-formed second record and version 2.0 was refused
C3_Witness ==
    /\ VersionNot30
    /\ TypeToken = s_PANEL_FILE
    /\ GoodRecord1
    /\ FailedAt(1)
    /\ result.kind = "UnsupportedVersion"

-----------------------------------------------------------------------------
(* C4 *)

\* the second record of a board or panel header has a unit token that is
\* neither MM nor THOU
BadHeaderUnit ==
    /\ HasHeaderRecord0
    /\ IsStrTok(HeaderRecords[1][1])
    /\ TypeToken \in {s_BOARD_FILE, s_PANEL_FILE}
    /\ Len(HeaderRecords) >= 2
    /\ Len(HeaderRecords[2]) >= 2
    /\ IsStrTok(HeaderRecords[2][1])
    /\ IsStrTok(HeaderRecords[2][2])
    /\ TokText(HeaderRecords[2][2]) \notin {s_MM, s_THOU}

\* the first record of an ELECTRICAL section reaches its unit token
HasElectricalUnit(sec) ==
    /\ IsElectrical(sec)
    /\ Len(SecRecords(sec)) >= 1
    /\ Len(SecRecords(sec)[1]) >= 3
    /\ \A t \in 1..3 : IsStrTok(SecRecords(sec)[1][t])

ElectricalUnit(sec) == TokText(SecRecords(sec)[1][3])

UnitFor(tok) == IF tok = s_MM THEN "SImm" ELSE "Mils"

\* C4: a unit token other than MM and THOU fails with WrongUnit, in the
\* second header record of a board or panel file and in the first record of
\* an ELECTRICAL section; MM decodes to SImm (millimeters) and THOU to Mils
\* (thousandths of an inch).
C4_WrongUnit ==
    /\ (BadHeaderUnit /\ pc \notin {"start", "header"}) =>
           (FailedAt(1) /\ result.kind = "WrongUnit")
    /\ (Passed(1) /\ header.ty.tag \in {"BoardFile", "PanelFile"}) =>
           header.ty.units = UnitFor(TokText(HeaderRecords[2][2]))
    /\ \A p \in SectionIdx :
           (p >= 2 /\ HasElectricalUnit(idf30[p])) =>
               IF ElectricalUnit(idf30[p]) \in {s_MM, s_THOU}
               THEN Passed(p) =>
                        components_definitions[
                            CountBefore(IdxFrom(IsElectrical, 2), p) + 1].units
                            = UnitFor(ElectricalUnit(idf30[p]))
               ELSE /\ ~Passed(p)
                    /\ FailedAt(p) => result.kind = "WrongUnit"

\* an ELECTRICAL section after another section was refused for its unit
C4_Witness ==
    /\ pos >= 3
    /\ pos < Len(idf30)
    /\ FailedAt(pos)
    /\ HasElectricalUnit(idf30[pos])
    /\ ElectricalUnit(idf30[pos]) \notin {s_MM, s_THOU}
    /\ result.kind = "WrongUnit"

-----------------------------------------------------------------------------
(* C5 *)

\* the first pair of the section that does not decode has a side token that
\* is neither TOP nor BOTTOM
BadSideFirst(sec) ==
    /\ IsPlacement(sec)
    /\ LET recs == SecRecords(sec)
       IN  \E k \in 1..(Len(recs) \div 2) :
               /\ PairsGood(recs, k - 1)
               /\ GoodId(recs[2 * k - 1])
               /\ FloatsOk(recs[2 * k])
               /\ Len(recs[2 * k]) >= 5
               /\ IsStrTok(recs[2 * k][5])
               /\ ~SideOk(recs[2 * k])

\* the first pair of the section that does not decode has a status token
\* that is none of PLACED, UNPLACED, MCAD, ECAD
BadStatusFirst(sec) ==
    /\ IsPlacement(sec)
    /\ LET recs == SecRecords(sec)
       IN  \E k \in 1..(Len(recs) \div 2) :
               /\ PairsGood(recs, k - 1)
               /\ GoodId(recs[2 * k - 1])
               /\ FloatsOk(recs[2 * k])
               /\ SideOk(recs[2 * k])
               /\ Len(recs[2 * k]) >= 6
               /\ IsStrTok(recs[2 * k][6])
               /\ ~StatusOk(recs[2 * k])

\* C5 (as claimed): a bad side token fails with the error WrongSide and a
\* bad status token with the error WrongStatus.
C5_WrongSideWrongStatus ==
    \A p \in SectionIdx :
        /\ (p >= 2 /\ BadSideFirst(idf30[p])) =>
               (~Passed(p) /\ (FailedAt(p) => result.kind = "WrongSide"))
        /\ (p >= 2 /\ BadStatusFirst(idf30[p])) =>
               (~Passed(p) /\ (FailedAt(p) => result.kind = "WrongStatus"))

\* C5 (amended): a bad side token fails with the error Malformed carrying
\* "Expected TOP or BOTTOM for side of board" and a bad status token with the
\* error Malformed carrying "Wrong placement status": one error kind, told
\* apart by its message.
C5_Malformed ==
    \A p \in SectionIdx :
        /\ (p >= 2 /\ BadSideFirst(idf30[p])) =>
               /\ ~Passed(p)
               /\ FailedAt(p) =>
                      result = [ok |-> FALSE, kind |-> "Malformed",
                                arg |-> "Expected TOP or BOTTOM for side of board"]
        /\ (p >= 2 /\ BadStatusFirst(idf30[p])) =>
               /\ ~Passed(p)
               /\ FailedAt(p) =>
                      result = [ok |-> FALSE, kind |-> "Malformed",
                                arg |-> "Wrong placement status"]

\* a PLACEMENT section was refused for the side token of a geometry line
C5_Witness ==
    /\ pos >= 2
    /\ pos < Len(idf30)
    /\ FailedAt(pos)
    /\ BadSideFirst(idf30[pos])
    /\ result.kind = "Malformed"

-----------------------------------------------------------------------------
(* C6 *)

\* the records after the first whose first token is not PROP
OutlineCount(recs) == Cardinality({r \in 2..Len(recs) : recs[r][1].str # s_PROP})

\* C6: a decoded library file has one ComponentDefinition per ELECTRICAL
\* section, the k-th built from the k-th such section in document order and
\* holding as many points as that section has outline records.
C6_LibraryComponents ==
    (Decoded /\ header.ty.tag = "LibraryFile") =>
        LET E == IdxFrom(IsElectrical, 2)
            comps == header.ty.components
        IN  /\ Len(comps) = Len(E)
            /\ \A k \in 1..Len(E) :
                   LET recs == SecRecords(idf30[E[k]])
                   IN  /\ comps[k].geometry_name = TokText(recs[1][1])
                       /\ comps[k].units = UnitFor(TokText(recs[1][3]))
                       /\ Len(comps[k].points) = OutlineCount(recs)

\* two ELECTRICAL sections with 1 and 2 outline records were decoded
C6_Witness ==
    /\ Decoded
    /\ header.ty.tag = "LibraryFile"
    /\ Len(IdxFrom(IsElectrical, 2)) = 2
    /\ Len(header.ty.components) = 2
    /\ Len(header.ty.components[1].points) = 1
    /\ Len(header.ty.components[2].points) = 2

-----------------------------------------------------------------------------
(* C7 *)

\* the positions, ascending, of the lines of text equal to l, from i on
RECURSIVE LinePos(_, _)
LinePos(l, i) ==
    IF i > Len(text) THEN <<>>
    ELSE (IF text[i] = l THEN <<i>> ELSE <<>>) \o LinePos(l, i + 1)

Opens(name) == LinePos(<<".">> \o name, 1)

Closes(name) == LinePos(<<".">> \o s_END_ \o name, 1)

\* C7: to_string writes, for a library file, one ELECTRICAL block per
\* ComponentDefinition in list order and no PLACEMENT block; for a board
\* file, exactly one PLACEMENT block holding every placement in list order;
\* for a panel file, no PLACEMENT block.
C7_BlocksByFileType ==
    pc = "encoded" =>
        /\ header.ty.tag = "LibraryFile" =>
               LET comps == header.ty.components
                   st == Opens(s_ELECTRICAL)
                   en == Closes(s_ELECTRICAL)
               IN  /\ Len(st) = Len(comps)
                   /\ Len(en) = Len(comps)
                   /\ \A k \in 1..Len(comps) :
                          SubSeq(text, st[k], en[k])
                              = ComponentDefinition_to_string(comps[k])
                   /\ Opens(s_PLACEMENT) = <<>>
                   /\ Closes(s_PLACEMENT) = <<>>
        /\ header.ty.tag = "BoardFile" =>
               LET st == Opens(s_PLACEMENT)
                   en == Closes(s_PLACEMENT)
               IN  /\ Len(st) = 1
                   /\ Len(en) = 1
                   /\ SubSeq(text, st[1] + 1, en[1] - 1)
                          = Cat([c \in 1..Len(placement) |->
                                    ComponentPlacement_fmt(placement[c])])
        /\ header.ty.tag = "PanelFile" =>
               /\ Opens(s_PLACEMENT) = <<>>
               /\ Closes(s_PLACEMENT) = <<>>

\* a board file with two different placements was encoded
C7_Witness ==
    /\ pc = "encoded"
    /\ header.ty.tag = "BoardFile"
    /\ Len(placement) = 2
    /\ placement[1] # placement[2]
    /\ Len(Opens(s_PLACEMENT)) = 1

-----------------------------------------------------------------------------
(* C8 *)

\* the rendering the claim gives a string field
Shown(s) == IF s = <<>> THEN <<"\"", "\"">> ELSE s

ShownDesignator(d) ==
    IF d.tag = "NoRefDes" THEN s_NOREFDES
    ELSE IF d.tag = "Board" THEN s_BOARD
    ELSE Shown(d.name)

\* C8 (as claimed): every string field the encoder writes (header source,
\* date, board name; placement package name, part number, named designator;
\* component-definition geometry name, part number; generic string values)
\* appears unescaped when non-empty and as "" when empty.
C8_EmptyStringsQuoted ==
    pc = "encoded" =>
        /\ text[2] = Join(<<FileType_fmt(header.ty), s_3_0, Shown(header.source),
                            Shown(header.date), header.board_file_version>>)
        /\ header.ty.tag \in {"BoardFile", "PanelFile"} =>
               text[3] = Join(<<Shown(header.ty.board_name), Unit_fmt(header.ty.units)>>)
        /\ \A c \in 1..Len(placement) :
               ComponentPlacement_fmt(placement[c])[1]
                   = Join(<<Shown(placement[c].package_name),
                            Shown(placement[c].part_number),
                            ShownDesignator(placement[c].designator)>>)
        /\ \A d \in 1..Len(header.ty.components) :
               LET def == header.ty.components[d]
               IN  ComponentDefinition_to_string(def)[2]
                       = Join(<<Shown(def.geometry_name), Shown(def.part_number),
                                Unit_fmt(def.units), fmt_float(def.height, 4)>>)
        /\ \A o \in 1..Len(other_sections) :
               \A r \in 1..Len(other_sections[o].records) :
                   \A t \in 1..Len(other_sections[o].records[r]) :
                       LET v == other_sections[o].records[r][t]
                       IN  v.kind = "String" => IdfValue_fmt(v) = Shown(v.str)

-----------------------------------------------------------------------------
(* C9 *)

KindOf(rule) ==
    IF rule = "integer" THEN "Integer"
    ELSE IF rule = "float" THEN "Float"
    ELSE "String"

\* stored is the generic Section of the section pair sec: its name, its
\* header tokens after the name, one Value per token, classified by rule
StoredAs(stored, sec) ==
    LET recs == SecRecords(sec)
        args == SecArgs(sec)
    IN  /\ stored.name = SecName(sec)
        /\ stored.args = [a \in 1..Len(args) |-> args[a].str]
        /\ Len(stored.records) = Len(recs)
        /\ \A r \in 1..Len(recs) :
               /\ Len(stored.records[r]) = Len(recs[r])
               /\ \A t \in 1..Len(recs[r]) :
                      /\ stored.records[r][t].kind = KindOf(recs[r][t].rule)
                      /\ recs[r][t].rule \in {"string", "quoted_string"}
                         => stored.records[r][t].str = recs[r][t].str

\* the generic section at position p is in other_sections, at its rank
\* among the generic sections of the document
GenericStored(p) ==
    LET k == CountBefore(IdxFrom(IsGeneric, 2), p) + 1
    IN  /\ Len(other_sections) >= k
        /\ StoredAs(other_sections[k], idf30[p])

\* the section has an integer token outside the range of i64
HasOversizedInteger(sec) ==
    \E r \in 1..Len(SecRecords(sec)) :
        \E t \in 1..Len(SecRecords(sec)[r]) :
            LET tok == SecRecords(sec)[r][t]
            IN  tok.rule = "integer" /\ ~parse_i64(tok.str).ok

\* C9 (as claimed): every section named neither PLACEMENT nor ELECTRICAL is
\* appended to other_sections in document order, with its args and one
\* classified Value per token, and no token makes decoding fail.
C9_GenericNeverFails ==
    /\ \A p \in SectionIdx :
           (p >= 2 /\ IsGeneric(idf30[p])) =>
               /\ ~FailedAt(p)
               /\ Passed(p) => GenericStored(p)
    /\ Decoded => Len(other_sections) = Len(IdxFrom(IsGeneric, 2))

\* C9 (amended): every section named neither PLACEMENT nor ELECTRICAL whose
\* integer tokens all fit i64 is appended to other_sections in document
\* order, with its args and one classified Value per token; a section with
\* an integer token outside i64 makes decoding fail with ParseInt, and
\* nothing else in such a section makes decoding fail.
C9_GenericSections ==
    /\ \A p \in SectionIdx :
           (p >= 2 /\ IsGeneric(idf30[p])) =>
               /\ FailedAt(p) => (result.kind = "ParseInt" /\ HasOversizedInteger(idf30[p]))
               /\ (Passed(p) \/ FailedAt(p)) => (HasOversizedInteger(idf30[p]) <=> FailedAt(p))
               /\ Passed(p) => GenericStored(p)
    /\ Decoded => Len(other_sections) = Len(IdxFrom(IsGeneric, 2))

\* two generic sections were decoded, one with a record of an integer, a
\* float and strings
C9_Witness ==
    /\ Decoded
    /\ Len(IdxFrom(IsGeneric, 2)) = 2
    /\ Len(other_sections) = 2
    /\ other_sections[1].name # other_sections[2].name
    /\ \E o \in 1..2 : \E r \in 1..Len(other_sections[o].records) :
           {other_sections[o].records[r][t].kind :
                t \in 1..Len(other_sections[o].records[r])}
               = {"Integer", "Float", "String"}

-----------------------------------------------------------------------------
(* C10 *)

\* the grammar accepts the text and its first section is not named HEADER,
\* or it has no section at all
NoHeaderFirst ==
    /\ Idf30Parser_parse(file).ok
    /\ LET t == Idf30Parser_parse(file).v
       IN  Len(t) = 1 \/ SecName(t[1]) # s_HEADER

\* C10 (as claimed): decoding fails with MissingHeader, and with no other
\* error, whenever the first section is not named HEADER, also when the text
\* has no section at all.
C10_MissingHeader ==
    (pc \notin {"start", "header"} /\ NoHeaderFirst) =>
        (pc = "failed" /\ result.kind = "MissingHeader")

-----------------------------------------------------------------------------
(* C11 *)

\* the placements decoded from the PLACEMENT sections before position p
RECURSIVE PlacedBefore(_)
PlacedBefore(p) ==
    IF p <= 2 THEN 0
    ELSE PlacedBefore(p - 1)
         + (IF IsPlacement(idf30[p - 1]) THEN Len(SecRecords(idf30[p - 1])) \div 2 ELSE 0)

\* the text begins with the two characters T, P
BeginsTP(s) == Len(s) >= 2 /\ s[1] = "T" /\ s[2] = "P"

\* C11: is_test_point is true exactly for a named designator whose name
\* starts with "TP", and false for NoRefDes and Board; the designator tokens
\* NOREFDES and BOARD decode to NoRefDes and Board, never to a named
\* designator, and every other token decodes to the designator of that name.
C11_TestPoint ==
    /\ ~is_test_point([tag |-> "NoRefDes", name |-> <<>>])
    /\ ~is_test_point([tag |-> "Board", name |-> <<>>])
    /\ \A p \in SectionIdx :
           (p >= 2 /\ IsPlacement(idf30[p]) /\ Passed(p)) =>
               LET recs == SecRecords(idf30[p])
               IN  \A k \in 1..(Len(recs) \div 2) :
                       LET tok == TokText(recs[2 * k - 1][3])
                           d == placement[PlacedBefore(p) + k].designator
                       IN  /\ tok = s_NOREFDES => d.tag = "NoRefDes"
                           /\ tok = s_BOARD => d.tag = "Board"
                           /\ tok \notin {s_NOREFDES, s_BOARD} => (d.tag = "Any" /\ d.name = tok)
                           /\ is_test_point(d) <=>
                                  (tok \notin {s_NOREFDES, s_BOARD} /\ BeginsTP(tok))

\* a test point and a named designator that is none were decoded
C11_Witness ==
    /\ Decoded
    /\ \E k \in 1..Len(placement) :
           placement[k].designator.tag = "Any" /\ is_test_point(placement[k].designator)
    /\ \E k \in 1..Len(placement) :
           placement[k].designator.tag = "Any" /\ ~is_test_point(placement[k].designator)

-----------------------------------------------------------------------------
(* C12 *)

\* the first record of an ELECTRICAL section decodes: two names, a unit MM
\* or THOU, a height
GoodElectricalHead(sec) ==
    /\ HasElectricalUnit(sec)
    /\ ElectricalUnit(sec) \in {s_MM, s_THOU}
    /\ Len(SecRecords(sec)[1]) >= 4
    /\ SecRecords(sec)[1][4].rule = "float"

\* a record whose first token is the literal PROP
IsPropRecord(rec) == rec[1].rule = "string" /\ rec[1].str = s_PROP

\* a record of an integer label and three floats
OutlineShaped(rec) ==
    /\ Len(rec) >= 4
    /\ rec[1].rule = "integer"
    /\ \A t \in 2..4 : rec[t].rule = "float"

\* the digits of an integer token, without its sign
LabelDigits(tok) == IF tok.str[1] \in {"+", "-"} THEN Tail(tok.str) ELSE tok.str

\* the integer the token denotes is 0
LabelIsZero(tok) == \A c \in 1..Len(LabelDigits(tok)) : LabelDigits(tok)[c] = "0"

\* the token is a u32 literal: no '-' sign, at most 4294967295
LabelInU32(tok) ==
    tok.str[1] # "-" /\ DigitsLeq(StripZeros(LabelDigits(tok)), U32Max)

\* an ELECTRICAL section whose records after the first are all PROP records
\* or outline records
OutlineSection(sec) ==
    /\ GoodElectricalHead(sec)
    /\ \A r \in 2..Len(SecRecords(sec)) :
           IsPropRecord(SecRecords(sec)[r]) \/ OutlineShaped(SecRecords(sec)[r])

\* the outline records of the section, in input order
OutlineRecords(sec) == SelectSeq(Tail(SecRecords(sec)), LAMBDA rec : ~IsPropRecord(rec))

\* the ComponentDefinition decoded from the ELECTRICAL section at position p
ComponentAt(p) == components_definitions[CountBefore(IdxFrom(IsElectrical, 2), p) + 1]

\* points holds one Point per outline record, in order, labelled by the
\* record's integer and holding its three floats
PointsOf(points, recs) ==
    /\ Len(points) = Len(recs)
    /\ \A k \in 1..Len(recs) :
           /\ points[k].label
                  = (IF LabelIsZero(recs[k][1]) THEN "CounterClockwise" ELSE "Clockwise")
           /\ points[k].x = parse_float(recs[k][2].str)
           /\ points[k].y = parse_float(recs[k][3].str)
           /\ points[k].angle = parse_float(recs[k][4].str)

\* C12 (as claimed): in an ELECTRICAL section every record after the first
\* that is not a PROP record becomes one Point, in input order, labelled
\* CounterClockwise when its integer label is 0 and Clockwise otherwise, for
\* every integer the grammar admits, negative ones included; PROP records
\* give no Point and no error.
C12_AnyIntegerLabel ==
    \A p \in SectionIdx :
        (p >= 2 /\ OutlineSection(idf30[p])) =>
            /\ ~FailedAt(p)
            /\ Passed(p) => PointsOf(ComponentAt(p).points, OutlineRecords(idf30[p]))

\* C12 (amended): in an ELECTRICAL section whose integer labels are all u32
\* literals (no '-' sign, at most 4294967295) every record after the first
\* that is not a PROP record becomes one Point, in input order, labelled
\* CounterClockwise when its label is 0 and Clockwise otherwise, and PROP
\* records give no Point and no error; a label with a '-' sign (also -0) or
\* above 4294967295 makes decoding fail with ParseInt.
C12_U32Label ==
    \A p \in SectionIdx :
        (p >= 2 /\ OutlineSection(idf30[p])) =>
            LET recs == OutlineRecords(idf30[p])
            IN  IF \A k \in 1..Len(recs) : LabelInU32(recs[k][1])
                THEN /\ ~FailedAt(p)
                     /\ Passed(p) => PointsOf(ComponentAt(p).points, recs)
                ELSE /\ ~Passed(p)
                     /\ FailedAt(p) => result.kind = "ParseInt"

\* a section with a PROP record and an outline record labelled 2 was decoded
\* to a component of one Clockwise point
C12_Witness ==
    \E p \in SectionIdx :
        /\ p >= 2
        /\ OutlineSection(idf30[p])
        /\ Passed(p)
        /\ \E r \in 2..Len(SecRecords(idf30[p])) : IsPropRecord(SecRecords(idf30[p])[r])
        /\ Len(ComponentAt(p).points) = 1
        /\ ComponentAt(p).points[1].label = "Clockwise"
        /\ ~LabelIsZero(OutlineRecords(idf30[p])[1][1])
        /\ OutlineRecords(idf30[p])[1][1].str # <<"1">>

====
